---- MODULE Spec2Model ----
(***************************************************************************)
(* ClassChartsCoordinator (custom_components/classcharts/__init__.py):     *)
(* the hourly refresh cycle, the on-demand lesson query of the calendar,   *)
(* the per-pupil timetable cache and the shared remote client.             *)
(*                                                                         *)
(* Coroutines run on one event loop: the code between two awaits is one    *)
(* atomic step.  Every remote call is an executor job: it is submitted by  *)
(* the step that reaches the await (pc "..._call"), executed by the        *)
(* executor (the Exec actions, pc "..._ret") and its result is consumed    *)
(* when the coroutine resumes (the Resume actions).                        *)
(***************************************************************************)
EXTENDS Integers, Sequences, FiniteSets, TLC

\* ---- bounds of the model
MaxOps == 3
MaxFailures == 1
MaxSessionFailures == 1
MaxTicks == 1
MaxEpoch == 1

\* ---- program constants
FetchDays == 8
RetentionDays == 7

PupilIds == {1, 2}
NoPupil == 0
\* the query tasks that may be in flight at once
Queries == {1, 2}

\* the first day of the model: late enough for dates before the cutoff to exist
Day0 == RetentionDays + 1
MaxToday == Day0 + MaxTicks
\* the date ranges a calendar query may ask for: the two days around the cutoff
\* of Day0, the two days before the fetch window with its first day, and one day
\* inside the window
QueryRanges == {<<Day0 - RetentionDays - 1, Day0 - RetentionDays>>,
                <<Day0 - 2, Day0>>,
                <<Day0 + 2, Day0 + 2>>}

\* ---- the remote service
\* the lesson list the service holds for a pupil and a date, at data version e
RemoteLessons(p, d, e) ==
    [i \in 1..(d % 3) |-> [pupil |-> p, date |-> d, pos |-> i, v |-> e]]

\* the response of get_lessons: a falsy response on days without classes
RemoteResponse(p, d, e) ==
    IF d % 3 = 0 THEN [falsy |-> TRUE, data |-> <<>>]
    ELSE [falsy |-> FALSE, data |-> RemoteLessons(p, d, e)]

NoResponse == [falsy |-> TRUE, data |-> <<>>]

\* a pupil record of get_pupils at data version e
RemotePupil(p, e) == [id |-> p, count |-> e]

\* the pupil lists get_pupils may return
RosterIds == {<<>>, <<2>>, <<1, 2>>}
RemotePupils(ids, e) == [k \in 1..Len(ids) |-> RemotePupil(ids[k], e)]

\* ---- helpers of the coordinator
EmptyMap == [d \in {} |-> <<>>]

\* a variant of setdefault that replaces the pupil's map by an empty one
SetFresh(c, p) == (p :> EmptyMap) @@ c

\* self._timetable_cache.setdefault(pupil_id, {})
SetDefault(c, p) == IF p \in DOMAIN c THEN c ELSE (p :> EmptyMap) @@ c

\* self._timetable_cache.get(pupil_id, {})
CacheGet(c, p) == IF p \in DOMAIN c THEN c[p] ELSE EmptyMap

\* [start + timedelta(days=i) for i in range(n)]
DateList(start, n) == [i \in 1..(IF n > 0 THEN n ELSE 0) |-> start + i - 1]

\* a variant of the pruning that removes only the oldest entry dated before
\* the cutoff
PruneOldest(c, p, t) ==
    LET old == CacheGet(c, p)
        cutoff == t - RetentionDays
        stale == {d \in DOMAIN old : d < cutoff}
        kept == IF stale = {} THEN DOMAIN old
                ELSE DOMAIN old \ {CHOOSE d \in stale : \A x \in stale : d <= x}
    IN  (p :> [d \in kept |-> old[d]]) @@ c

\* a variant of the pruning that prunes the cache of every pupil
PruneEveryone(c, p, t) ==
    LET c1 == SetDefault(c, p)
    IN  [o \in DOMAIN c1 |->
            [d \in {x \in DOMAIN c1[o] : x >= t - RetentionDays} |-> c1[o][d]]]

\* a variant of the pruning that also drops the entry dated on the cutoff
PruneStrict(c, p, t) ==
    LET old == CacheGet(c, p)
        cutoff == t - RetentionDays
        kept == {d \in DOMAIN old : d > cutoff}
    IN  (p :> [d \in kept |-> old[d]]) @@ c

\* prune_cache_for_pupil, with date.today() = t
Prune(c, p, t) ==
    LET old == CacheGet(c, p)
        cutoff == t - RetentionDays
        kept == {d \in DOMAIN old : d >= cutoff}
    IN  (p :> [d \in kept |-> old[d]]) @@ c

\* a variant of the cache write that extends the list of an entry already
\* present with the lessons of the new response
PutExtends(c, p, d, l) ==
    LET c1 == SetDefault(c, p)
    IN  [c1 EXCEPT ![p] = (d :> (IF d \in DOMAIN c1[p] THEN c1[p][d] \o l ELSE l))
                          @@ c1[p]]

\* a variant of the cache write that keeps an entry already present
PutIfAbsent(c, p, d, l) ==
    LET c1 == SetDefault(c, p)
    IN  IF d \in DOMAIN c1[p] THEN c1 ELSE [c1 EXCEPT ![p] = (d :> l) @@ c1[p]]

\* self._timetable_cache.setdefault(pupil_id, {}); cache[pupil_id][d] = data
Put(c, p, d, l) ==
    LET c1 == SetDefault(c, p)
    IN  [c1 EXCEPT ![p] = (d :> l) @@ c1[p]]

\* lessons_response.get("data", []) if lessons_response else []
LessonsData(resp) == IF resp.falsy THEN <<>> ELSE resp.data

\* a variant of the miss list that takes every requested date as missing
UncachedAll(c, p, dates) == dates

\* [d for d in dates if d not in cache.get(pupil_id, {})]
RECURSIVE Uncached(_, _, _)
Uncached(c, p, dates) ==
    IF dates = <<>> THEN <<>>
    ELSE LET rest == Uncached(c, p, Tail(dates))
         IN  IF Head(dates) \in DOMAIN CacheGet(c, p) THEN rest
             ELSE <<Head(dates)>> \o rest

\* a variant of the read loop that walks the dates from the last to the first
RECURSIVE CollectDescending(_, _, _)
CollectDescending(c, p, dates) ==
    IF dates = <<>> THEN <<>>
    ELSE LET pc0 == CacheGet(c, p)
         IN  CollectDescending(c, p, Tail(dates))
             \o (IF Head(dates) \in DOMAIN pc0 THEN pc0[Head(dates)] ELSE <<>>)

\* the read loop of get_lesson_data_for_pupil_between_dates
RECURSIVE Collect(_, _, _)
Collect(c, p, dates) ==
    IF dates = <<>> THEN <<>>
    ELSE LET pc0 == CacheGet(c, p)
         IN  (IF Head(dates) \in DOMAIN pc0 THEN pc0[Head(dates)] ELSE <<>>)
             \o Collect(c, p, Tail(dates))

\* {pupil["id"]: pupil for pupil in pupils_list}: keys in order of first
\* occurrence, each with the record of its last occurrence
RECURSIVE PupilsDict(_)
PupilsDict(list) ==
    IF list = <<>> THEN <<>>
    ELSE LET n == Len(list)
             init == PupilsDict(SubSeq(list, 1, n - 1))
             last == list[n]
         IN  IF \E k \in 1..Len(init) : init[k].id = last.id
             THEN [k \in 1..Len(init) |->
                      IF init[k].id = last.id THEN last ELSE init[k]]
             ELSE Append(init, last)

DictKeys(dict) == {dict[k].id : k \in 1..Len(dict)}


\* ---- state
VARIABLES
    today,                 \* date.today(), as a day number
    epoch,                 \* version of the data the remote service holds
    selected,              \* the pupil selected on the shared ParentClient
    pupils,                \* self._pupils
    data,                  \* coordinator.data, the published roster
    last_update_success,   \* coordinator.last_update_success
    cache,                 \* self._timetable_cache
    entities,              \* pupil ids that got a calendar entity at setup
    setup,                 \* the first refresh succeeded: the platforms are set up
    rpc, rloc,             \* the refresh cycle: position and locals
    qpc, qloc,             \* the on-demand queries: position and locals
    rhist, qhist,          \* history: calls executed, state at the start
    nops, fails, sfails

vars == <<today, epoch, selected, pupils, data, last_update_success, cache,
          entities, setup, rpc, rloc, qpc, qloc, rhist, qhist,
          nops, fails, sfails>>

remoteVars == <<today, epoch>>
coordVars == <<pupils, data, last_update_success, cache, entities, setup>>
refreshVars == <<rpc, rloc, rhist>>
queryVars == <<qpc, qloc, qhist>>

RLoc0 == [roster |-> <<>>, i |-> 0, dates |-> <<>>, j |-> 0,
          ok |-> TRUE, list |-> <<>>, resp |-> NoResponse]
QLoc0 == [pupil |-> NoPupil, start |-> 0, end |-> 0, dates |-> <<>>,
          uncached |-> <<>>, j |-> 0, ok |-> TRUE, resp |-> NoResponse,
          ret |-> <<>>]
EmptyCache == [p \in {} |-> EmptyMap]
RHist0 == [log |-> <<>>, cache0 |-> EmptyCache, pupils0 |-> <<>>, data0 |-> <<>>]
QHist0 == [log |-> <<>>, cache0 |-> EmptyCache]

\* one executed remote call: the operation, the pupil and date the caller meant,
\* whether it succeeded, and the lesson list a get_lessons response carried
Call(op, p, d, ok, l) ==
    [op |-> op, pupil |-> p, date |-> d, ok |-> ok, data |-> l]

\* ClassChartsCoordinator.__init__
Init ==
    /\ today = Day0
    /\ epoch = 0
    /\ selected = NoPupil
    /\ pupils = <<>>
    /\ data = <<>>
    /\ last_update_success = TRUE
    /\ cache = EmptyCache
    /\ entities = {}
    /\ setup = FALSE
    /\ rpc = "idle"
    /\ rloc = RLoc0
    /\ qpc = [q \in Queries |-> "idle"]
    /\ qloc = [q \in Queries |-> QLoc0]
    /\ rhist = RHist0
    /\ qhist = [q \in Queries |-> QHist0]
    /\ nops = 0
    /\ fails = 0
    /\ sfails = 0

RefreshIdle == rpc \in {"idle", "done", "failed"}
QueryIdle(q) == qpc[q] \in {"idle", "done"}
AllIdle == RefreshIdle /\ \A q \in Queries : QueryIdle(q)
\* a new query runs as the first task that is not in flight
FreeTask(q) == QueryIdle(q) /\ \A r \in Queries : r < q => ~QueryIdle(r)

\* the points at which the model lets the environment change: once the
\* integration is set up, between operations
EnvPoint == setup /\ AllIdle

\* a get_lessons call succeeds or raises
Outcome(ok) ==
    /\ ok \/ fails < MaxFailures
    /\ fails' = IF ok THEN fails ELSE fails + 1
    /\ UNCHANGED sfails

\* a login, get_pupils or select_pupil call succeeds or raises
SessionOutcome(ok) ==
    /\ ok \/ sfails < MaxSessionFailures
    /\ sfails' = IF ok THEN sfails ELSE sfails + 1
    /\ UNCHANGED fails


\* ---- the refresh cycle: _async_update_data

\* a variant of the return that merges the new roster into the published one:
\* the records of the pupils that dropped out are kept
RefreshReturnMerges(roster) ==
    /\ data' = roster \o SelectSeq(data, LAMBDA r : r.id \notin DictKeys(roster))
    /\ last_update_success' = TRUE
    /\ setup' = TRUE
    /\ entities' = IF setup THEN entities ELSE DictKeys(roster)
    /\ rpc' = "done"

\* the cycle returns pupils_dict: the host publishes it as coordinator.data and
\* sets last_update_success; the first successful refresh lets async_setup_entry
\* go on to create one calendar entity per pupil of coordinator.data
RefreshReturn(roster) ==
    /\ data' = roster
    /\ last_update_success' = TRUE
    /\ setup' = TRUE
    /\ entities' = IF setup THEN entities ELSE DictKeys(roster)
    /\ rpc' = "done"

\* a variant of the failed cycle in which last_update_success is not cleared
RefreshFailKeepsFlag ==
    /\ rpc' = "failed"
    /\ UNCHANGED <<pupils, data, last_update_success, cache, entities, setup, rloc>>

\* the cycle raises UpdateFailed: the host keeps coordinator.data and clears
\* last_update_success
RefreshFail ==
    /\ last_update_success' = FALSE
    /\ rpc' = "failed"
    /\ UNCHANGED <<pupils, data, cache, entities, setup, rloc>>

\* the loop over pupils_dict.keys() reaches its k-th pupil with the cache c:
\* setdefault, prune, the 8 dates, and select_pupil is submitted; past the last
\* pupil the cycle returns
BeginPupil(roster, k, c) ==
    IF k > Len(roster)
    THEN /\ cache' = c
         /\ rloc' = [rloc EXCEPT !.roster = roster, !.i = k]
         /\ RefreshReturn(roster)
    ELSE /\ cache' = Prune(SetDefault(c, roster[k].id), roster[k].id, today)
         /\ rloc' = [rloc EXCEPT !.roster = roster, !.i = k, !.j = 0,
                                 !.dates = DateList(today, FetchDays)]
         /\ rpc' = "select_call"
         /\ UNCHANGED <<data, last_update_success, entities, setup>>

\* the host starts a cycle: login is submitted
RefreshStart ==
    /\ RefreshIdle
    /\ nops < MaxOps
    /\ nops' = nops + 1
    /\ rpc' = "login_call"
    /\ rloc' = RLoc0
    /\ rhist' = [log |-> <<>>, cache0 |-> cache, pupils0 |-> pupils, data0 |-> data]
    /\ UNCHANGED <<remoteVars, selected, coordVars, queryVars, fails, sfails>>

\* client.login runs in the executor
ExecLogin ==
    /\ rpc = "login_call"
    /\ \E ok \in BOOLEAN :
          /\ SessionOutcome(ok)
          /\ rloc' = [rloc EXCEPT !.ok = ok]
          /\ rhist' = [rhist EXCEPT
                !.log = Append(@, Call("login", NoPupil, 0, ok, <<>>))]
    /\ rpc' = "login_ret"
    /\ UNCHANGED <<remoteVars, selected, coordVars, queryVars, nops>>

\* login() returned: False raises UpdateFailed, True submits get_pupils
ResumeLogin ==
    /\ rpc = "login_ret"
    /\ IF rloc.ok
       THEN /\ rpc' = "pupils_call"
            /\ UNCHANGED <<coordVars, rloc>>
       ELSE RefreshFail
    /\ UNCHANGED <<remoteVars, selected, queryVars, rhist, nops, fails, sfails>>

\* client.get_pupils runs in the executor
ExecGetPupils ==
    /\ rpc = "pupils_call"
    /\ \E ok \in BOOLEAN, ids \in RosterIds :
          /\ SessionOutcome(ok)
          /\ ok \/ ids = <<>>
          /\ rloc' = [rloc EXCEPT !.ok = ok, !.list = RemotePupils(ids, epoch)]
          /\ rhist' = [rhist EXCEPT
                !.log = Append(@, Call("get_pupils", NoPupil, 0, ok, <<>>))]
    /\ rpc' = "pupils_ret"
    /\ UNCHANGED <<remoteVars, selected, coordVars, queryVars, nops>>

\* a variant in which the new roster becomes coordinator.data as soon as
\* get_pupils has returned, before the loop over the pupils
ResumeGetPupilsPublishes ==
    /\ rpc = "pupils_ret"
    /\ IF rloc.ok
       THEN LET roster == PupilsDict(rloc.list)
            IN  /\ pupils' = roster
                /\ IF roster = <<>>
                   THEN BeginPupil(roster, 1, cache)
                   ELSE /\ cache' = Prune(SetDefault(cache, roster[1].id),
                                          roster[1].id, today)
                        /\ rloc' = [rloc EXCEPT !.roster = roster, !.i = 1, !.j = 0,
                                                !.dates = DateList(today, FetchDays)]
                        /\ rpc' = "select_call"
                        /\ data' = roster
                        /\ UNCHANGED <<last_update_success, entities, setup>>
       ELSE RefreshFail
    /\ UNCHANGED <<remoteVars, selected, queryVars, rhist, nops, fails, sfails>>

\* get_pupils returned: an exception raises UpdateFailed; a list replaces
\* self._pupils and the loop over the pupils begins
ResumeGetPupils ==
    /\ rpc = "pupils_ret"
    /\ IF rloc.ok
       THEN /\ pupils' = PupilsDict(rloc.list)
            /\ BeginPupil(PupilsDict(rloc.list), 1, cache)
       ELSE RefreshFail
    /\ UNCHANGED <<remoteVars, selected, queryVars, rhist, nops, fails, sfails>>

\* client.select_pupil(pupil_id) runs in the executor, for the refresh cycle
ExecSelectR ==
    /\ rpc = "select_call"
    /\ \E ok \in BOOLEAN :
          /\ SessionOutcome(ok)
          /\ rloc' = [rloc EXCEPT !.ok = ok]
          /\ selected' = IF ok THEN rloc.roster[rloc.i].id ELSE selected
          /\ rhist' = [rhist EXCEPT !.log = Append(@,
                Call("select_pupil", rloc.roster[rloc.i].id, 0, ok, <<>>))]
    /\ rpc' = "select_ret"
    /\ UNCHANGED <<remoteVars, coordVars, queryVars, nops>>

\* a variant in which a failed select_pupil ends the loop over the pupils
ResumeSelectRStopsCycle ==
    /\ rpc = "select_ret"
    /\ IF rloc.ok /\ rloc.dates # <<>>
       THEN /\ rpc' = "lessons_call"
            /\ rloc' = [rloc EXCEPT !.j = 1]
            /\ UNCHANGED coordVars
       ELSE /\ BeginPupil(rloc.roster,
                          IF rloc.ok THEN rloc.i + 1 ELSE Len(rloc.roster) + 1,
                          cache)
            /\ UNCHANGED pupils
    /\ UNCHANGED <<remoteVars, selected, queryVars, rhist, nops, fails, sfails>>

\* select_pupil returned to _cache_lesson_data_for_pupil_for_dates: False
\* abandons this pupil, True submits get_lessons for the first date
ResumeSelectR ==
    /\ rpc = "select_ret"
    /\ IF rloc.ok /\ rloc.dates # <<>>
       THEN /\ rpc' = "lessons_call"
            /\ rloc' = [rloc EXCEPT !.j = 1]
            /\ UNCHANGED coordVars
       ELSE /\ BeginPupil(rloc.roster, rloc.i + 1, cache)
            /\ UNCHANGED pupils
    /\ UNCHANGED <<remoteVars, selected, queryVars, rhist, nops, fails, sfails>>

\* client.get_lessons({"date": ...}) runs in the executor, for the refresh
\* cycle: the service answers for the pupil selected on the client
ExecLessonsR ==
    /\ rpc = "lessons_call"
    /\ \E ok \in BOOLEAN :
          /\ Outcome(ok)
          /\ LET resp == IF ok THEN RemoteResponse(selected, rloc.dates[rloc.j], epoch)
                         ELSE NoResponse
             IN  /\ rloc' = [rloc EXCEPT !.ok = ok, !.resp = resp]
                 /\ rhist' = [rhist EXCEPT !.log = Append(@,
                       Call("get_lessons", rloc.roster[rloc.i].id, rloc.dates[rloc.j],
                            ok, LessonsData(resp)))]
    /\ rpc' = "lessons_ret"
    /\ UNCHANGED <<remoteVars, selected, coordVars, queryVars, nops>>

\* a variant in which a failed get_lessons is submitted again for the same date
ResumeLessonsRRetries ==
    /\ rpc = "lessons_ret"
    /\ LET id == rloc.roster[rloc.i].id
           c1 == IF rloc.ok
                 THEN Put(cache, id, rloc.dates[rloc.j], LessonsData(rloc.resp))
                 ELSE cache
       IN  IF ~rloc.ok
           THEN /\ rpc' = "lessons_call"
                /\ UNCHANGED <<cache, rloc, data, last_update_success, entities, setup>>
           ELSE IF rloc.j < Len(rloc.dates)
                THEN /\ cache' = c1
                     /\ rloc' = [rloc EXCEPT !.j = @ + 1]
                     /\ rpc' = "lessons_call"
                     /\ UNCHANGED <<data, last_update_success, entities, setup>>
                ELSE BeginPupil(rloc.roster, rloc.i + 1, c1)
    /\ UNCHANGED <<remoteVars, selected, pupils, queryVars, rhist, nops, fails, sfails>>

\* a variant in which a failed get_lessons abandons the pupil's remaining dates
ResumeLessonsRStopsOnError ==
    /\ rpc = "lessons_ret"
    /\ LET id == rloc.roster[rloc.i].id
           c1 == IF rloc.ok
                 THEN Put(cache, id, rloc.dates[rloc.j], LessonsData(rloc.resp))
                 ELSE cache
       IN  IF rloc.ok /\ rloc.j < Len(rloc.dates)
           THEN /\ cache' = c1
                /\ rloc' = [rloc EXCEPT !.j = @ + 1]
                /\ rpc' = "lessons_call"
                /\ UNCHANGED <<data, last_update_success, entities, setup>>
           ELSE BeginPupil(rloc.roster, rloc.i + 1, c1)
    /\ UNCHANGED <<remoteVars, selected, pupils, queryVars, rhist, nops, fails, sfails>>

\* get_lessons returned: a response is written to the cache, an exception is
\* logged; then the next date, the next pupil, or the end of the cycle
ResumeLessonsR ==
    /\ rpc = "lessons_ret"
    /\ LET id == rloc.roster[rloc.i].id
           c1 == IF rloc.ok
                 THEN Put(cache, id, rloc.dates[rloc.j], LessonsData(rloc.resp))
                 ELSE cache
       IN  IF rloc.j < Len(rloc.dates)
           THEN /\ cache' = c1
                /\ rloc' = [rloc EXCEPT !.j = @ + 1]
                /\ rpc' = "lessons_call"
                /\ UNCHANGED <<data, last_update_success, entities, setup>>
           ELSE BeginPupil(rloc.roster, rloc.i + 1, c1)
    /\ UNCHANGED <<remoteVars, selected, pupils, queryVars, rhist, nops, fails, sfails>>


\* ---- the on-demand query: get_lesson_data_for_pupil_between_dates

\* the read loop over the requested dates and the return
QueryReturn(q, c) ==
    /\ cache' = c
    /\ qloc' = [qloc EXCEPT ![q].ret = Collect(c, qloc[q].pupil, qloc[q].dates)]
    /\ qpc' = [qpc EXCEPT ![q] = "done"]

\* a variant of the query that returns from the cache at once, without
\* select_pupil, when no date of the range is missing
QueryStartSkipsSelect(q) ==
    /\ FreeTask(q)
    /\ setup
    /\ nops < MaxOps
    /\ nops' = nops + 1
    /\ \E p \in entities, r \in QueryRanges :
          LET s == r[1]
              e == r[2]
              dates == DateList(s, (e - s) + 1)
              c1 == SetDefault(cache, p)
              miss == Uncached(c1, p, dates)
          IN  /\ cache' = c1
              /\ qloc' = [qloc EXCEPT ![q] =
                    [QLoc0 EXCEPT !.pupil = p, !.start = s, !.end = e,
                                  !.dates = dates,
                                  !.uncached = miss,
                                  !.ret = IF miss = <<>> THEN Collect(c1, p, dates)
                                          ELSE <<>>]]
              /\ qhist' = [qhist EXCEPT ![q] = [log |-> <<>>, cache0 |-> cache]]
              /\ qpc' = [qpc EXCEPT ![q] = IF miss = <<>> THEN "done"
                                           ELSE "select_call"]
    /\ UNCHANGED <<remoteVars, selected, pupils, data, last_update_success,
                   entities, setup, refreshVars, fails, sfails>>

\* a calendar entity asks for the lessons of its pupil between two dates: the
\* dates, setdefault, the miss list, and select_pupil is submitted
QueryStart(q) ==
    /\ FreeTask(q)
    /\ setup
    /\ nops < MaxOps
    /\ nops' = nops + 1
    /\ \E p \in entities, r \in QueryRanges :
          LET s == r[1]
              e == r[2]
              dates == DateList(s, (e - s) + 1)
              c1 == SetDefault(cache, p)
          IN  /\ cache' = c1
              /\ qloc' = [qloc EXCEPT ![q] =
                    [QLoc0 EXCEPT !.pupil = p, !.start = s, !.end = e,
                                  !.dates = dates,
                                  !.uncached = Uncached(c1, p, dates)]]
              /\ qhist' = [qhist EXCEPT ![q] = [log |-> <<>>, cache0 |-> cache]]
    /\ qpc' = [qpc EXCEPT ![q] = "select_call"]
    /\ UNCHANGED <<remoteVars, selected, pupils, data, last_update_success,
                   entities, setup, refreshVars, fails, sfails>>

\* client.select_pupil(pupil_id) runs in the executor, for a query
ExecSelectQ(q) ==
    /\ qpc[q] = "select_call"
    /\ \E ok \in BOOLEAN :
          /\ SessionOutcome(ok)
          /\ qloc' = [qloc EXCEPT ![q].ok = ok]
          /\ selected' = IF ok THEN qloc[q].pupil ELSE selected
          /\ qhist' = [qhist EXCEPT ![q].log = Append(@,
                Call("select_pupil", qloc[q].pupil, 0, ok, <<>>))]
    /\ qpc' = [qpc EXCEPT ![q] = "select_ret"]
    /\ UNCHANGED <<remoteVars, coordVars, refreshVars, nops>>

\* a variant in which the query fetches although select_pupil failed
ResumeSelectQIgnoresFailure(q) ==
    /\ qpc[q] = "select_ret"
    /\ IF qloc[q].uncached # <<>>
       THEN /\ qpc' = [qpc EXCEPT ![q] = "lessons_call"]
            /\ qloc' = [qloc EXCEPT ![q].j = 1]
            /\ UNCHANGED cache
       ELSE QueryReturn(q, cache)
    /\ UNCHANGED <<remoteVars, selected, pupils, data, last_update_success,
                   entities, setup, refreshVars, qhist, nops, fails, sfails>>

\* select_pupil returned: False ends the caching at once, True submits
\* get_lessons for the first missing date; with nothing to fetch the query returns
ResumeSelectQ(q) ==
    /\ qpc[q] = "select_ret"
    /\ IF qloc[q].ok /\ qloc[q].uncached # <<>>
       THEN /\ qpc' = [qpc EXCEPT ![q] = "lessons_call"]
            /\ qloc' = [qloc EXCEPT ![q].j = 1]
            /\ UNCHANGED cache
       ELSE QueryReturn(q, cache)
    /\ UNCHANGED <<remoteVars, selected, pupils, data, last_update_success,
                   entities, setup, refreshVars, qhist, nops, fails, sfails>>

\* client.get_lessons({"date": ...}) runs in the executor, for a query
ExecLessonsQ(q) ==
    /\ qpc[q] = "lessons_call"
    /\ \E ok \in BOOLEAN :
          /\ Outcome(ok)
          /\ LET d == qloc[q].uncached[qloc[q].j]
                 resp == IF ok THEN RemoteResponse(selected, d, epoch) ELSE NoResponse
             IN  /\ qloc' = [qloc EXCEPT ![q].ok = ok, ![q].resp = resp]
                 /\ qhist' = [qhist EXCEPT ![q].log = Append(@,
                       Call("get_lessons", qloc[q].pupil, d, ok, LessonsData(resp)))]
    /\ qpc' = [qpc EXCEPT ![q] = "lessons_ret"]
    /\ UNCHANGED <<remoteVars, selected, coordVars, refreshVars, nops>>

\* get_lessons returned: write or log, then the next missing date or the return
ResumeLessonsQ(q) ==
    /\ qpc[q] = "lessons_ret"
    /\ LET l == qloc[q]
           c1 == IF l.ok
                 THEN Put(cache, l.pupil, l.uncached[l.j], LessonsData(l.resp))
                 ELSE cache
       IN  IF l.j < Len(l.uncached)
           THEN /\ cache' = c1
                /\ qloc' = [qloc EXCEPT ![q].j = @ + 1]
                /\ qpc' = [qpc EXCEPT ![q] = "lessons_call"]
           ELSE QueryReturn(q, c1)
    /\ UNCHANGED <<remoteVars, selected, pupils, data, last_update_success,
                   entities, setup, refreshVars, qhist, nops, fails, sfails>>

\* ---- the environment

\* midnight passes
Tick ==
    /\ today < MaxToday
    /\ EnvPoint
    /\ today' = today + 1
    /\ UNCHANGED <<epoch, selected, coordVars, refreshVars, queryVars, nops, fails, sfails>>

\* the school changes the data the service holds (between operations)
RemoteChange ==
    /\ epoch < MaxEpoch
    /\ EnvPoint
    /\ epoch' = epoch + 1
    /\ UNCHANGED <<today, selected, coordVars, refreshVars, queryVars, nops, fails, sfails>>

\* ---- specifications

RefreshStep ==
    \/ ExecLogin
    \/ ResumeLogin
    \/ ExecGetPupils
    \/ ResumeGetPupils
    \/ ExecSelectR
    \/ ResumeSelectR
    \/ ExecLessonsR
    \/ ResumeLessonsR

QueryStep(q) ==
    \/ ExecSelectQ(q)
    \/ ResumeSelectQ(q)
    \/ ExecLessonsQ(q)
    \/ ResumeLessonsQ(q)

\* the refresh cycle and the queries interleave at every await, on one day and
\* against fixed remote data, with at most MaxFailures failing remote calls of
\* either kind
FailureCap == fails + sfails <= MaxFailures

Next ==
    \/ RefreshStart
    \/ ExecLogin /\ FailureCap'
    \/ ResumeLogin
    \/ ExecGetPupils /\ FailureCap'
    \/ ResumeGetPupils
    \/ ExecSelectR /\ FailureCap'
    \/ ResumeSelectR
    \/ ExecLessonsR /\ FailureCap'
    \/ ResumeLessonsR
    \/ \E q \in Queries : QueryStart(q)
    \/ \E q \in Queries : ExecSelectQ(q) /\ FailureCap'
    \/ \E q \in Queries : ResumeSelectQ(q)
    \/ \E q \in Queries : ExecLessonsQ(q) /\ FailureCap'
    \/ \E q \in Queries : ResumeLessonsQ(q)

Spec == Init /\ [][Next]_vars

\* one operation in flight at a time; between operations the day and the
\* remote data may change
SeqNext ==
    \/ AllIdle /\ RefreshStart
    \/ RefreshStep
    \/ \E q \in Queries : AllIdle /\ QueryStart(q)
    \/ \E q \in Queries : QueryStep(q)
    \/ Tick
    \/ RemoteChange

SeqSpec == Init /\ [][SeqNext]_vars


\* ---- vocabulary of the properties

RECURSIVE SortedSeq(_)
SortedSeq(S) ==
    IF S = {} THEN <<>>
    ELSE LET m == CHOOSE x \in S : \A y \in S : x <= y
         IN  <<m>> \o SortedSeq(S \ {m})

IsPrefix(a, b) == Len(a) <= Len(b) /\ SubSeq(b, 1, Len(a)) = a

IsLessonsCall(c) == c.op = "get_lessons"
IsSelectCall(c) == c.op = "select_pupil"
LessonCalls(log) == SelectSeq(log, IsLessonsCall)
SelectCalls(log) == SelectSeq(log, IsSelectCall)
DatesOf(calls) == [k \in 1..Len(calls) |-> calls[k].date]

\* the query's select_pupil call has run and succeeded
QuerySelected(q) == Len(qhist[q].log) >= 1 /\ qhist[q].log[1].ok

\* the dates the query has issued get_lessons for: those executed, and the one
\* submitted and still pending
QueryIssued(q) ==
    DatesOf(LessonCalls(qhist[q].log))
    \o (IF qpc[q] = "lessons_call" THEN <<qloc[q].uncached[qloc[q].j]>> ELSE <<>>)

\* the dates of the requested range that were not cached when the query began
QueryMissing(q) ==
    SortedSeq({d \in qloc[q].start..qloc[q].end :
                  d \notin DOMAIN CacheGet(qhist[q].cache0, qloc[q].pupil)})

\* ---- C1: a query fetches exactly the dates of its range that were missing
\* from the pupil's cache when it began, in ascending order: at every moment
\* the dates it has issued get_lessons for are a prefix of the ascending list
\* of the missing dates (so never a cached date), and once it has returned
\* they are that whole list if select_pupil succeeded and none if it failed.
C1_QueryFetchesMissingDates ==
    \A q \in Queries :
        qpc[q] # "idle" =>
            /\ IsPrefix(QueryIssued(q), QueryMissing(q))
            /\ (qpc[q] = "done" /\ QuerySelected(q))
                  => QueryIssued(q) = QueryMissing(q)
            /\ (qpc[q] = "done" /\ ~QuerySelected(q))
                  => QueryIssued(q) = <<>>

\* a query that returned after fetching two missing dates of a range whose
\* third date was already cached
C1_Witness ==
    \E q \in Queries :
        /\ qpc[q] = "done"
        /\ QuerySelected(q)
        /\ Len(QueryIssued(q)) = 2
        /\ \E d \in qloc[q].start..qloc[q].end :
              d \in DOMAIN CacheGet(qhist[q].cache0, qloc[q].pupil)

\* the step in which a refresh cycle returns
RefreshReturns == rpc # "done" /\ rpc' = "done"

\* the step in which query q returns
QueryReturns(q) == qpc[q] # "done" /\ qpc'[q] = "done"

\* every date the model can hold
Dates == 0..(MaxToday + FetchDays)

HasEntry(c, p, d) == d \in DOMAIN CacheGet(c, p)

\* the entry (p, d) is the same in the caches c and c2: absent in both, or
\* present in both with the same lesson list
SameEntry(c, c2, p, d) ==
    /\ HasEntry(c, p, d) <=> HasEntry(c2, p, d)
    /\ HasEntry(c, p, d) => c[p][d] = c2[p][d]

\* the concatenation of the lists cached for p on the dates of seq, in order
RECURSIVE Concat(_, _, _)
Concat(c, p, seq) ==
    IF seq = <<>> THEN <<>> ELSE c[p][Head(seq)] \o Concat(c, p, Tail(seq))

\* the cached dates of [s, e], ascending
CachedIn(c, p, s, e) == SortedSeq({d \in s..e : HasEntry(c, p, d)})

\* the position of pupil p in the roster of the running cycle (0: not in it)
RosterPos(p) ==
    IF \E k \in 1..Len(rloc.roster) : rloc.roster[k].id = p
    THEN CHOOSE k \in 1..Len(rloc.roster) : rloc.roster[k].id = p
    ELSE 0

\* the cycle's select_pupil call for p ran and succeeded / ran and failed
SelectedOk(p) ==
    \E k \in 1..Len(rhist.log) :
        rhist.log[k].op = "select_pupil" /\ rhist.log[k].pupil = p /\ rhist.log[k].ok
SelectFailed(p) ==
    \E k \in 1..Len(rhist.log) :
        rhist.log[k].op = "select_pupil" /\ rhist.log[k].pupil = p /\ ~rhist.log[k].ok

\* the cycle executed get_lessons for (p, d)
Attempted(p, d) ==
    \E k \in 1..Len(rhist.log) :
        rhist.log[k].op = "get_lessons" /\ rhist.log[k].pupil = p /\ rhist.log[k].date = d

PairsOf(calls) == [k \in 1..Len(calls) |-> <<calls[k].pupil, calls[k].date>>]

\* the get_lessons calls a finished cycle owes: for each roster pupil whose
\* select_pupil succeeded, in roster order, the dates of the window in order
RECURSIVE OwedFrom(_)
OwedFrom(k) ==
    IF k > Len(rloc.roster) THEN <<>>
    ELSE (IF SelectedOk(rloc.roster[k].id)
          THEN [n \in 1..Len(rloc.dates) |-> <<rloc.roster[k].id, rloc.dates[n]>>]
          ELSE <<>>)
         \o OwedFrom(k + 1)

\* ---- C2: a refresh cycle whose login fails or whose get_pupils raises ends
\* as failed with last_update_success false, has called neither select_pupil
\* nor get_lessons, and leaves self._pupils, coordinator.data and the whole
\* timetable cache as they were when the cycle began.
RefreshAborted ==
    \E k \in 1..Len(rhist.log) :
        /\ rhist.log[k].op \in {"login", "get_pupils"}
        /\ ~rhist.log[k].ok

C2_AbortedCycle ==
    /\ [](RefreshAborted =>
            /\ rpc \in {"login_ret", "pupils_ret", "failed"}
            /\ LessonCalls(rhist.log) = <<>>
            /\ SelectCalls(rhist.log) = <<>>)
    /\ [](rpc = "failed" => RefreshAborted)
    /\ [][(RefreshAborted' /\ rpc' = "failed" /\ rpc # "failed") =>
            /\ last_update_success' = FALSE
            /\ pupils' = rhist.pupils0
            /\ data' = rhist.data0
            /\ cache' = rhist.cache0]_vars

\* a cycle failed at get_pupils after an earlier cycle had filled the roster
\* and the cache
C2_Witness ==
    /\ rpc = "failed"
    /\ Len(rhist.log) = 2
    /\ rhist.data0 # <<>>
    /\ rhist.cache0 # EmptyCache
    /\ cache = rhist.cache0
    /\ ~last_update_success


\* ---- C3 (as claimed): in a finished cycle, after a failed get_lessons for
\* (P, D), every later date of P's window and every date of the window of every
\* later roster pupil has been attempted.
C3_AllLaterDatesAttempted ==
    rpc = "done" =>
        \A k \in 1..Len(rhist.log) :
            (rhist.log[k].op = "get_lessons" /\ ~rhist.log[k].ok) =>
                /\ \A d \in Dates :
                      (\E n \in 1..Len(rloc.dates) : rloc.dates[n] = d)
                      /\ d > rhist.log[k].date
                          => Attempted(rhist.log[k].pupil, d)
                /\ \A m \in 1..Len(rloc.roster) :
                      m > RosterPos(rhist.log[k].pupil) =>
                          \A n \in 1..Len(rloc.dates) :
                              Attempted(rloc.roster[m].id, rloc.dates[n])

\* ---- C3 (amended): once get_pupils has succeeded the cycle cannot end as
\* failed, whatever get_lessons and select_pupil calls fail; a finished cycle
\* is successful, publishes the roster, has called select_pupil once for every
\* roster pupil in roster order, and has called get_lessons for every date of
\* the 8-day window of every roster pupil whose select_pupil succeeded, in
\* order, whether or not earlier get_lessons calls failed.
GotPupils ==
    \E k \in 1..Len(rhist.log) : rhist.log[k].op = "get_pupils" /\ rhist.log[k].ok

C3_LessonFailuresDoNotStopCycle ==
    /\ GotPupils => rpc # "failed"
    /\ rpc = "done" =>
          /\ last_update_success
          /\ data = rloc.roster
          /\ Len(rloc.roster) > 0 => Len(rloc.dates) = FetchDays
          /\ [k \in 1..Len(SelectCalls(rhist.log)) |-> SelectCalls(rhist.log)[k].pupil]
                = [k \in 1..Len(rloc.roster) |-> rloc.roster[k].id]
          /\ PairsOf(LessonCalls(rhist.log)) = OwedFrom(1)

\* a finished cycle over two pupils in which a get_lessons call of the first
\* pupil failed before the last date, and all 16 dates were attempted
C3_Witness ==
    /\ rpc = "done"
    /\ Len(rloc.roster) = 2
    /\ Len(LessonCalls(rhist.log)) = 2 * FetchDays
    /\ \E k \in 1..Len(rhist.log) :
          /\ rhist.log[k].op = "get_lessons"
          /\ ~rhist.log[k].ok
          /\ rhist.log[k].pupil = rloc.roster[1].id
          /\ rhist.log[k].date < rloc.dates[FetchDays]

\* ---- C4: when a refresh cycle returns, for every pupil P of the new roster
\* and every date D of [today, today + 7]: if a get_lessons call of the cycle
\* for (P, D) succeeded, the cache holds for (P, D) the lesson list of that
\* response; otherwise the entry (P, D) is absent or is the entry the cache
\* held when the cycle began.
FetchedOk(p, d) ==
    {k \in 1..Len(rhist.log) :
        /\ rhist.log[k].op = "get_lessons"
        /\ rhist.log[k].ok
        /\ rhist.log[k].pupil = p
        /\ rhist.log[k].date = d}

CycleCachePost ==
    \A m \in 1..Len(rloc.roster) : \A d \in today..(today + 7) :
        LET p == rloc.roster[m].id
        IN  IF FetchedOk(p, d) # {}
            THEN /\ HasEntry(cache, p, d)
                 /\ \A k \in FetchedOk(p, d) : cache[p][d] = rhist.log[k].data
            ELSE \/ ~HasEntry(cache, p, d)
                 \/ /\ HasEntry(rhist.cache0, p, d)
                    /\ cache[p][d] = rhist.cache0[p][d]

C4_CacheAfterCycle == [][RefreshReturns => CycleCachePost']_vars

\* a finished cycle that replaced an older, different entry by a new response
\* and, for a date whose fetch failed, kept the entry it found
C4_Witness ==
    /\ rpc = "done"
    /\ CycleCachePost
    /\ \E m \in 1..Len(rloc.roster) : \E d1, d2 \in today..(today + 7) :
          LET p == rloc.roster[m].id
          IN  /\ FetchedOk(p, d1) # {}
              /\ HasEntry(rhist.cache0, p, d1)
              /\ cache[p][d1] # rhist.cache0[p][d1]
              /\ FetchedOk(p, d2) = {}
              /\ Attempted(p, d2)
              /\ HasEntry(rhist.cache0, p, d2)
              /\ cache[p][d2] = rhist.cache0[p][d2]


\* the entries of p in cache c dated on or after the cutoff of day t
Retained(c, p, t) == {d \in DOMAIN CacheGet(c, p) : d >= t - 7}

\* p's part of cache c2 is p's part of cache c without the entries dated
\* before the cutoff of day t
IsPruned(c, c2, p, t) ==
    /\ DOMAIN CacheGet(c2, p) = Retained(c, p, t)
    /\ \A d \in Retained(c, p, t) : c2[p][d] = c[p][d]

\* ---- C5 (as claimed): when a cycle returns, the timetable cache of a roster
\* pupil whose select_pupil failed is identical to that pupil's cache when the
\* cycle began.
FailedPupilCacheUntouched ==
    \A m \in 1..Len(rloc.roster) :
        SelectFailed(rloc.roster[m].id) =>
            \A d \in Dates : SameEntry(rhist.cache0, cache, rloc.roster[m].id, d)

C5_FailedPupilCacheIdentical == [][RefreshReturns => FailedPupilCacheUntouched']_vars

\* ---- C5 (amended): when a cycle returns in which select_pupil failed for
\* the roster pupil P, (a) the cycle is successful and P is in the published
\* roster, (b) P's cache is P's cache from the start of the cycle without the
\* entries dated before today - 7, nothing added or overwritten, no get_lessons
\* call was made for P, and (c) the next pupil in roster order has been
\* pruned and selected and, its selection having succeeded, fetched for all 8
\* dates.
FailedPupilPost ==
    \A m \in 1..Len(rloc.roster) :
        LET p == rloc.roster[m].id
        IN  SelectFailed(p) =>
              /\ last_update_success
              /\ p \in DictKeys(data)
              /\ IsPruned(rhist.cache0, cache, p, today)
              /\ \A d \in Dates : ~Attempted(p, d)
              /\ m < Len(rloc.roster) =>
                    LET nxt == rloc.roster[m + 1].id
                    IN  /\ \A d \in DOMAIN CacheGet(cache, nxt) : d >= today - 7
                        /\ SelectedOk(nxt) \/ SelectFailed(nxt)
                        /\ SelectedOk(nxt) =>
                              \A d \in today..(today + 7) : Attempted(nxt, d)

C5_SelectFailureSkipsOnlyThatPupil == [][RefreshReturns => FailedPupilPost']_vars

\* a finished cycle in which select_pupil failed for the first of two pupils,
\* whose cache lost an entry dated before the cutoff, and the second pupil was
\* fetched
C5_Witness ==
    /\ rpc = "done"
    /\ Len(rloc.roster) = 2
    /\ SelectFailed(rloc.roster[1].id)
    /\ FailedPupilPost
    /\ \E d \in DOMAIN CacheGet(rhist.cache0, rloc.roster[1].id) :
          d < today - 7 /\ ~HasEntry(cache, rloc.roster[1].id, d)
    /\ Len(LessonCalls(rhist.log)) = FetchDays

\* ---- C6: every lesson stored in the cache under pupil P comes from a
\* get_lessons response the service gave while P was the pupil selected on the
\* client: the service answers for the selected pupil, so every cached lesson
\* of P is a lesson of P.
C6_LessonsCachedUnderOwnPupil ==
    \A p \in DOMAIN cache : \A d \in DOMAIN cache[p] :
        \A n \in 1..Len(cache[p][d]) : cache[p][d][n].pupil = p

\* ---- C7: the step of the refresh cycle that prunes pupil P (it begins P's
\* turn) leaves as P's cache exactly P's prior entries dated on or after
\* today - 7, each with its lesson list unchanged, and an empty map if P had
\* none; when that step does not also store the last response of the previous
\* pupil, every other pupil's cache is untouched.
PruneStep == rpc' = "select_call" /\ rpc # "select_call"

PrunePost ==
    LET p == rloc'.roster[rloc'.i].id
    IN  /\ p \in DOMAIN cache'
        /\ IsPruned(cache, cache', p, today)
        /\ rpc \in {"pupils_ret", "select_ret"} =>
              \A o \in PupilIds \ {p} :
                  /\ o \in DOMAIN cache' <=> o \in DOMAIN cache
                  /\ \A d \in Dates : SameEntry(cache, cache', o, d)

C7_PruneKeepsFromCutoff == [][PruneStep => PrunePost]_vars

\* the first pupil of a cycle has just been pruned: the entry of today - 8 is
\* gone and the entry of today - 7 is kept
C7_Witness ==
    /\ rpc = "select_call"
    /\ rloc.i = 1
    /\ HasEntry(rhist.cache0, rloc.roster[1].id, today - 8)
    /\ HasEntry(rhist.cache0, rloc.roster[1].id, today - 7)
    /\ ~HasEntry(cache, rloc.roster[1].id, today - 8)
    /\ HasEntry(cache, rloc.roster[1].id, today - 7)
    /\ cache[rloc.roster[1].id][today - 7] = rhist.cache0[rloc.roster[1].id][today - 7]


\* ---- C8: the list a query for (P, start, end) returns is the concatenation,
\* in ascending date order, of the lists cached for exactly the dates of
\* [start, end] that are in P's cache when the query finishes, each list whole
\* and in its order; a query for the single day D with (P, D) cached returns
\* the cached list itself.
QueryResultPost(q) ==
    LET l == qloc'[q]
    IN  /\ l.ret = Concat(cache', l.pupil, CachedIn(cache', l.pupil, l.start, l.end))
        /\ (l.start = l.end /\ HasEntry(cache', l.pupil, l.start))
              => l.ret = cache'[l.pupil][l.start]

C8_ResultIsCachedConcatenation ==
    [][\A q \in Queries : QueryReturns(q) => QueryResultPost(q)]_vars

\* a query over three dates has returned the lessons of two cached dates, in
\* date order, while the date whose fetch failed contributes nothing
C8_Witness ==
    \E q \in Queries :
        LET l == qloc[q]
        IN  /\ qpc[q] = "done"
            /\ l.end = l.start + 2
            /\ HasEntry(cache, l.pupil, l.start + 1)
            /\ HasEntry(cache, l.pupil, l.end)
            /\ ~HasEntry(cache, l.pupil, l.start)
            /\ cache[l.pupil][l.start + 1] # <<>>
            /\ cache[l.pupil][l.end] # <<>>
            /\ l.ret = cache[l.pupil][l.start + 1] \o cache[l.pupil][l.end]

\* ---- C9: a query whose select_pupil fails issues no get_lessons call and
\* returns (it does not raise); when it returns, every dated cache entry of
\* every pupil is as it was when the query began, and the result is the
\* concatenation, in date order, of the lists that were cached for the dates
\* of the range when the query began.
QuerySelectFailed(q) == Len(qhist[q].log) >= 1 /\ ~qhist[q].log[1].ok

FailedQueryPost(q) ==
    LET l == qloc'[q]
        c0 == qhist'[q].cache0
    IN  /\ LessonCalls(qhist'[q].log) = <<>>
        /\ \A p \in PupilIds : \A d \in Dates : SameEntry(c0, cache', p, d)
        /\ l.ret = Concat(c0, l.pupil, CachedIn(c0, l.pupil, l.start, l.end))

C9_FailedSelectReturnsCached ==
    /\ [](\A q \in Queries :
            (qpc[q] # "idle" /\ QuerySelectFailed(q)) =>
                /\ qpc[q] \in {"select_ret", "done"}
                /\ LessonCalls(qhist[q].log) = <<>>)
    /\ [][\A q \in Queries :
            (qpc[q] = "select_ret" /\ QuerySelectFailed(q) /\ qpc'[q] # qpc[q])
                => (qpc'[q] = "done" /\ FailedQueryPost(q))]_vars

\* a query whose select_pupil failed has returned the lessons of the one date
\* of its range that was cached, two further dates of the range being missing
C9_Witness ==
    \E q \in Queries :
        LET l == qloc[q]
        IN  /\ qpc[q] = "done"
            /\ QuerySelectFailed(q)
            /\ Len(l.uncached) = 2
            /\ l.ret # <<>>
            /\ l.ret = Concat(qhist[q].cache0, l.pupil,
                              CachedIn(qhist[q].cache0, l.pupil, l.start, l.end))
            /\ cache = SetDefault(qhist[q].cache0, l.pupil)

\* ---- C10: every step of a query for (P, start, end) leaves every cache entry
\* it does not add as it was: an entry (p, d) the step changes belongs to P,
\* lies in [start, end], was missing from P's cache when the query began and
\* exists after the step; no pupil's cache is dropped.
QueryStepOf(q) == qpc'[q] # qpc[q]

QueryFrame(q) ==
    LET l == qloc'[q]
    IN  /\ \A p \in DOMAIN cache : p \in DOMAIN cache'
        /\ \A p \in PupilIds : \A d \in Dates :
              ~SameEntry(cache, cache', p, d) =>
                  /\ p = l.pupil
                  /\ d \in l.start..l.end
                  /\ ~HasEntry(qhist'[q].cache0, p, d)
                  /\ HasEntry(cache', p, d)

C10_QueryOnlyAddsMissingDates ==
    [][\A q \in Queries : QueryStepOf(q) => QueryFrame(q)]_vars

\* a returned query added a missing date of its range for its pupil, while an
\* entry of the range cached before, an entry outside the range and an entry
\* of the other pupil are as they were when it began
C10_Witness ==
    \E q \in Queries :
        LET l == qloc[q]
            c0 == qhist[q].cache0
        IN  /\ qpc[q] = "done"
            /\ \E d \in l.start..l.end :
                  ~HasEntry(c0, l.pupil, d) /\ HasEntry(cache, l.pupil, d)
            /\ \E d \in l.start..l.end :
                  HasEntry(c0, l.pupil, d) /\ SameEntry(c0, cache, l.pupil, d)
            /\ \E d \in Dates \ (l.start..l.end) :
                  HasEntry(c0, l.pupil, d) /\ SameEntry(c0, cache, l.pupil, d)
            /\ \E o \in PupilIds \ {l.pupil} : \E d \in Dates :
                  HasEntry(c0, o, d) /\ SameEntry(c0, cache, o, d)


\* the cycle is in its loop over the pupils: the roster has been fetched and
\* the first pupil has been pruned
InPupilLoop == rpc \in {"select_call", "select_ret", "lessons_call", "lessons_ret"}

\* ---- C11 (as claimed): once a cycle has fetched the roster and is pruning
\* and fetching per pupil, coordinator.data, which the sensors and calendars
\* read, is already the new roster.
C11_RosterPublishedBeforeFetch == InPupilLoop => data = rloc.roster

\* ---- C11 (amended): while a cycle is pruning and fetching per pupil, the
\* new roster is in self._pupils only and coordinator.data is still the
\* roster published before the cycle; coordinator.data changes in one step
\* only, the return of a cycle, and then becomes the complete roster built
\* from the list get_pupils returned in that cycle.
C11_RosterPublishedOnReturn ==
    /\ [](InPupilLoop => (pupils = rloc.roster /\ data = rhist.data0))
    /\ [][data' # data =>
            /\ RefreshReturns
            /\ data' = PupilsDict(rloc.list)
            /\ data' = pupils']_vars
    /\ [][RefreshReturns => data' = PupilsDict(rloc.list)]_vars

\* a cycle that has fetched a roster different from the published one has
\* already called get_lessons, and readers still see the previous roster
C11_Witness ==
    /\ InPupilLoop
    /\ Len(LessonCalls(rhist.log)) >= 1
    /\ rhist.data0 # <<>>
    /\ data = rhist.data0
    /\ data # rloc.roster
    /\ pupils = rloc.roster


\* the ordered mapping roster holds exactly one record per pupil id of list,
\* and that record is the last record of list with that id
RosterIsList(roster, list) ==
    /\ DictKeys(roster) = {list[k].id : k \in 1..Len(list)}
    /\ \A m, n \in 1..Len(roster) : roster[m].id = roster[n].id => m = n
    /\ \A n \in 1..Len(roster) :
          \E k \in 1..Len(list) :
              /\ roster[n] = list[k]
              /\ \A j \in (k + 1)..Len(list) : list[j].id # roster[n].id

\* ---- C12: when a cycle returns, coordinator.data and self._pupils are
\* exactly the mapping pupil id -> record of the pupil list get_pupils
\* returned in that cycle: a pupil missing from the list is missing from the
\* roster and every record is the list's record, whatever the previous roster
\* held.
C12_RosterReplaced ==
    [][RefreshReturns => (RosterIsList(data', rloc.list) /\ pupils' = data')]_vars

\* a returned cycle dropped a pupil of the previous roster and replaced the
\* record of a pupil that stayed by a different one
C12_Witness ==
    /\ rpc = "done"
    /\ RosterIsList(data, rloc.list)
    /\ \E p \in DictKeys(rhist.data0) : p \notin DictKeys(data)
    /\ \E m \in 1..Len(rhist.data0) : \E n \in 1..Len(data) :
          /\ rhist.data0[m].id = data[n].id
          /\ rhist.data0[m] # data[n]


\* ---- C13: when a cycle returns, the timetable cache of every pupil that is
\* not in the roster the cycle fetched is as it was when the cycle began: no
\* entry of such a pupil was pruned, overwritten, added or removed.
OutsidersUntouched ==
    \A p \in PupilIds \ DictKeys(rloc.roster) :
        /\ p \in DOMAIN cache <=> p \in DOMAIN rhist.cache0
        /\ \A d \in Dates : SameEntry(rhist.cache0, cache, p, d)

C13_DroppedPupilCacheUntouched == [][RefreshReturns => OutsidersUntouched']_vars

\* a returned cycle whose roster lost a pupil of the previous roster, and that
\* pupil still has an entry dated before today - 7
C13_Witness ==
    /\ rpc = "done"
    /\ OutsidersUntouched
    /\ rloc.roster # <<>>
    /\ \E p \in DictKeys(rhist.data0) \ DictKeys(rloc.roster) :
          \E d \in Dates : d < today - 7 /\ HasEntry(cache, p, d)


\* ---- the sensors (sensor.py): one per pupil of coordinator.data at setup
\* and counter; the model's pupil records carry the one counter "count"

\* what dict.get reads: None for a missing key, else the value (as a
\* one-element tuple, so that the two compare)
None == <<>>
Some(v) == <<v>>

\* self.coordinator.data.get(self._pupil_id, {})
DataGet(dict, p) ==
    IF p \in DictKeys(dict)
    THEN dict[CHOOSE n \in 1..Len(dict) : dict[n].id = p]
    ELSE [k \in {} |-> None]

\* pupil.get(self._sensor_key)
RecordGet(r, k) == IF k \in DOMAIN r THEN Some(r[k]) ELSE None

\* a variant of the availability that ignores last_update_success
available_ignores_flag(p) == p \in DictKeys(data)

\* ClassChartsSensorEntity.available
available(p) == last_update_success /\ p \in DictKeys(data)

\* ClassChartsSensorEntity.native_value
native_value(p) == RecordGet(DataGet(data, p), "count")

\* ---- C17: at any time, the sensor of pupil P reports the counter of P's
\* record in the published roster and reports no value when P is not in that
\* roster; it is available exactly when the last cycle succeeded and P is in
\* the published roster: after a failed cycle no sensor is available, after a
\* successful one the sensors of the roster's pupils are.
C17_SensorReadsPublishedRoster ==
    \A p \in entities :
        /\ p \in DictKeys(data) =>
              \E n \in 1..Len(data) :
                  data[n].id = p /\ native_value(p) = Some(data[n].count)
        /\ p \notin DictKeys(data) => native_value(p) = None
        /\ available(p) => (last_update_success /\ p \in DictKeys(data))
        /\ rpc = "failed" => ~available(p)
        /\ (rpc = "done" /\ p \in DictKeys(data)) => available(p)
        /\ (rpc = "done" /\ p \notin DictKeys(data)) => ~available(p)

\* after a failed cycle, the sensor of a pupil of the published roster still
\* reports the counter but is unavailable, and the sensor of a pupil that
\* dropped out of the roster reports no value
C17_Witness ==
    /\ rpc = "failed"
    /\ \E p \in entities :
          p \in DictKeys(data) /\ native_value(p) # None /\ ~available(p)
    /\ \E p \in entities :
          p \notin DictKeys(data) /\ native_value(p) = None /\ ~available(p)


\* ---- C18: with today fixed, pruning the cache of a pupil a second time
\* changes nothing: for every cache the program reaches and every pupil, the
\* whole cache after two prunings in a row is the whole cache after one.
C18_PruneIdempotent ==
    \A p \in PupilIds :
        Prune(Prune(cache, p, today), p, today) = Prune(cache, p, today)

\* a cycle has just pruned a pupil: entries dated before the cutoff are gone,
\* others are kept, and pruning the result again gives the same cache
C18_Witness ==
    /\ rpc = "select_call"
    /\ LET p == rloc.roster[rloc.i].id
       IN  /\ \E d \in Dates :
                 /\ d < today - 7
                 /\ HasEntry(rhist.cache0, p, d)
                 /\ ~HasEntry(cache, p, d)
           /\ CacheGet(cache, p) # EmptyMap
           /\ cache # rhist.cache0
           /\ Prune(cache, p, today) = cache


\* the step in which query q submits a get_lessons call
QueryIssues(q) == qpc'[q] = "lessons_call" /\ qpc[q] # "lessons_call"

\* ---- C19: whenever a query submits a get_lessons call, with other queries
\* or a refresh cycle in flight, the date it asks for is not in its pupil's
\* cache at that moment.
C19_NoFetchOfCachedDate ==
    [][\A q \in Queries :
          QueryIssues(q) =>
              ~HasEntry(cache', qloc'[q].pupil, qloc'[q].uncached[qloc'[q].j])]_vars


\* ---- refresh cycles without end

\* the host starts a cycle, as it does every SCAN_INTERVAL for as long as the
\* integration runs
LiveRefreshStart ==
    /\ RefreshIdle
    /\ rpc' = "login_call"
    /\ rloc' = RLoc0
    /\ rhist' = [log |-> <<>>, cache0 |-> cache, pupils0 |-> pupils, data0 |-> data]
    /\ UNCHANGED <<remoteVars, selected, coordVars, queryVars, nops, fails, sfails>>

LiveNext ==
    \/ AllIdle /\ LiveRefreshStart
    \/ RefreshStep
    \/ \E q \in Queries : AllIdle /\ QueryStart(q)
    \/ \E q \in Queries : QueryStep(q)
    \/ Tick

\* the state after construction, with no remote call left to fail: every
\* cycle succeeds
LiveInit ==
    /\ today = Day0
    /\ epoch = 0
    /\ selected = NoPupil
    /\ pupils = <<>>
    /\ data = <<>>
    /\ last_update_success = TRUE
    /\ cache = EmptyCache
    /\ entities = {}
    /\ setup = FALSE
    /\ rpc = "idle"
    /\ rloc = RLoc0
    /\ qpc = [q \in Queries |-> "idle"]
    /\ qloc = [q \in Queries |-> QLoc0]
    /\ rhist = RHist0
    /\ qhist = [q \in Queries |-> QHist0]
    /\ nops = 0
    /\ fails = MaxFailures
    /\ sfails = MaxSessionFailures

\* cycles keep being started and every started operation runs to its end; the
\* day advances (up to MaxToday: an entry older than the cutoff stays older
\* than the cutoff on every later day)
LiveSpec ==
    /\ LiveInit
    /\ [][LiveNext]_vars
    /\ WF_vars(AllIdle /\ LiveRefreshStart)
    /\ WF_vars(RefreshStep)
    /\ \A q \in Queries : WF_vars(QueryStep(q))
    /\ WF_vars(Tick)

\* the cache holds for p an entry dated before today - 7 while p, a pupil of
\* the roster at setup, is not in the published roster
StaleDropped(p, d) ==
    /\ p \in entities
    /\ p \notin DictKeys(data)
    /\ d < today - 7
    /\ HasEntry(cache, p, d)

\* ---- C20: once a pupil has dropped out of the roster, each of its cache
\* entries dated before today - 7 is eventually removed, cycles running
\* without end.
C20_DroppedPupilEventuallyPruned ==
    \A p \in PupilIds : \A d \in Dates :
        StaleDropped(p, d) ~> ~HasEntry(cache, p, d)


\* ---- the calendar entity (calendar.py): from lesson records to events
\*
\* A lesson record is a function from the keys it carries to their values.
\* Text fields are strings.  A date or time field is written as a record that
\* says which kind of value the service sent: the conversions below are
\* defined by kind.
YMD(day) == [fmt |-> "ymd", day |-> day]                    \* "YYYY-MM-DD"
HHMM(min) == [fmt |-> "hhmm", min |-> min]                  \* "HH:MM"
ISO(day, min) == [fmt |-> "iso", day |-> day, min |-> min]  \* "YYYY-MM-DDTHH:MM:SS+00:00"
ISOInvalid == [fmt |-> "iso_invalid"]  \* well formed, no such time: "...T25:00:00+00:00"
Text == [fmt |-> "text"]               \* a string of neither form
EmptyStr == [fmt |-> "empty"]          \* ""
Null == [fmt |-> "null"]               \* JSON null: None

\* the result of a call that may raise
Returns(v) == [raises |-> "", value |-> v]
Raises(e) == [raises |-> e, value |-> None]

\* datetime.strptime(lesson["date"], "%Y-%m-%d").date()
strptime(lesson) ==
    IF "date" \notin DOMAIN lesson THEN Raises("KeyError")
    ELSE IF lesson["date"].fmt = "ymd" THEN Returns(Some(lesson["date"].day))
    ELSE IF lesson["date"].fmt = "null" THEN Raises("TypeError")
    ELSE Raises("ValueError")

\* homeassistant.util.dt.parse_datetime: the datetime of a well-formed
\* timestamp, None for a string that is not well formed, ValueError for a
\* well-formed string that is no valid time
parse_datetime(v) ==
    IF v.fmt = "iso" THEN Returns(<<v.day, v.min>>)
    ELSE IF v.fmt = "iso_invalid" THEN Raises("ValueError")
    ELSE IF v.fmt = "null" THEN Raises("TypeError")
    ELSE Returns(None)

\* lesson.get(key, default)
Get(lesson, key, default) == IF key \in DOMAIN lesson THEN lesson[key] ELSE default

\* lesson.get(key)
GetOpt(lesson, key) == IF key \in DOMAIN lesson THEN Some(lesson[key]) ELSE None

\* the truth value of a time field
TruthyTime(v) == v.fmt \notin {"empty", "null"}

\* end lies before start
Before(end, start) == end[1] < start[1] \/ (end[1] = start[1] /\ end[2] < start[2])

\* CalendarEvent(start=, end=, summary=, description=, location=): a host that
\* validates events raises for an event without start or end, or that ends
\* before it starts; a host that does not validate accepts every event
CalendarEvent(start, end, summary, description, location, validates) ==
    IF validates /\ (start = None \/ end = None \/ Before(end, start))
    THEN Raises("HomeAssistantError")
    ELSE Returns([start |-> start, end |-> end, summary |-> summary,
                  description |-> description, location |-> location])

\* a variant of the title that appends every lesson name that is not empty
TitleWithEveryName(lesson) ==
    LET subject == Get(lesson, "subject_name", "Unknown Subject")
        lesson_name == Get(lesson, "lesson_name", "")
    IN  IF lesson_name # "" THEN subject \o " - " \o lesson_name ELSE subject

\* the title of the event
Title(lesson) ==
    LET subject == Get(lesson, "subject_name", "Unknown Subject")
        lesson_name == Get(lesson, "lesson_name", "")
    IN  IF lesson_name # "" /\ lesson_name # subject
        THEN subject \o " - " \o lesson_name
        ELSE subject

\* the keys and labels of the description, in the order of the code
DescriptionFields ==
    << <<"teacher_name", "Teacher: ">>, <<"room_name", "Room: ">>,
       <<"period_name", "Period: ">>, <<"note", "Note: ">>,
       <<"pupil_note", "Your Note: ">> >>

\* description_parts, from the k-th field on
RECURSIVE DescriptionParts(_, _)
DescriptionParts(lesson, k) ==
    IF k > Len(DescriptionFields) THEN <<>>
    ELSE LET key == DescriptionFields[k][1]
             rest == DescriptionParts(lesson, k + 1)
         IN  IF Get(lesson, key, "") # ""
             THEN <<DescriptionFields[k][2] \o lesson[key]>> \o rest
             ELSE rest

\* "\n".join(parts), for a list that is not empty
RECURSIVE JoinLines(_)
JoinLines(parts) ==
    IF Len(parts) = 1 THEN parts[1]
    ELSE parts[1] \o "\n" \o JoinLines(Tail(parts))

\* "\n".join(description_parts) if description_parts else None
Description(lesson) ==
    LET parts == DescriptionParts(lesson, 1)
    IN  IF parts = <<>> THEN None ELSE Some(JoinLines(parts))

\* ClassChartsCalendarEntity._lesson_to_event: the event, or None
lesson_to_event(lesson, lesson_date, validates) ==
    LET start_time_str == Get(lesson, "start_time", EmptyStr)
        end_time_str == Get(lesson, "end_time", EmptyStr)
    IN  IF ~TruthyTime(start_time_str) \/ ~TruthyTime(end_time_str) THEN None
        ELSE LET start_datetime == parse_datetime(start_time_str)
                 end_datetime == parse_datetime(end_time_str)
             IN  IF start_datetime.raises # "" \/ end_datetime.raises # "" THEN None
                 ELSE LET event == CalendarEvent(start_datetime.value,
                                                 end_datetime.value,
                                                 Title(lesson),
                                                 Description(lesson),
                                                 GetOpt(lesson, "room_name"),
                                                 validates)
                      IN  IF event.raises # "" THEN None ELSE Some(event.value)

\* the loop of async_get_events over lessons_data: the events, or the
\* exception that leaves the loop
RECURSIVE async_get_events(_, _)
async_get_events(lessons_data, validates) ==
    IF lessons_data = <<>> THEN Returns(<<>>)
    ELSE LET lesson == Head(lessons_data)
             lesson_date == strptime(lesson)
         IN  IF lesson_date.raises \notin {"", "ValueError", "KeyError"}
             THEN Raises(lesson_date.raises)
             ELSE LET event == IF lesson_date.raises # "" THEN None
                               ELSE lesson_to_event(lesson, lesson_date.value, validates)
                      rest == async_get_events(Tail(lessons_data), validates)
                  IN  IF rest.raises # "" THEN rest
                      ELSE Returns(event \o rest.value)


\* ---- the lesson lists the conversion is run on

\* the day and the times of the lessons
LessonDay == 1
NineOClock == 540
TenToTen == 590

\* a field of a lesson record: absent, or the key with its value
Absent == [fmt |-> "absent"]
Field(key, v) == IF v = Absent THEN <<>> ELSE key :> v
TextField(key, choice, v) ==
    IF choice = "absent" THEN <<>> ELSE key :> (IF choice = "empty" THEN "" ELSE v)

\* lessons with well-formed times that differ in their text fields
TextChoices == {"absent", "empty", "set"}
TextLessons ==
    {   TextField("subject_name", s, "Maths")
     @@ TextField("lesson_name", n[1], n[2])
     @@ TextField("teacher_name", t[1], "Ms A")
     @@ TextField("room_name", t[2], "R1")
     @@ TextField("period_name", t[3], "P1")
     @@ TextField("note", t[4], "bring kit")
     @@ TextField("pupil_note", t[5], "late")
     @@ [date |-> YMD(LessonDay), start_time |-> ISO(LessonDay, NineOClock),
         end_time |-> ISO(LessonDay, TenToTen)] :
        s \in {"absent", "set"},
        n \in {<<"absent", "">>, <<"empty", "">>, <<"set", "Maths">>, <<"set", "Algebra">>},
        t \in [1..5 -> TextChoices]}

\* lessons of subject Maths in room R1 that differ in date and times
DateChoices == {Absent, YMD(LessonDay), Text, Null}
StartChoices == {Absent, EmptyStr, HHMM(NineOClock), ISO(LessonDay, NineOClock), ISOInvalid}
EndChoices == {Absent, Null, HHMM(TenToTen), ISO(LessonDay, TenToTen),
               ISO(LessonDay, NineOClock - 1), Text}
TimeLessons ==
    {   Field("date", d) @@ Field("start_time", st) @@ Field("end_time", en)
     @@ [subject_name |-> "Maths", room_name |-> "R1"] :
        d \in DateChoices, st \in StartChoices, en \in EndChoices}

\* the lesson of the scenario with times of day, and the same lesson with
\* timestamps
HHMMLesson ==
    [date |-> YMD(LessonDay), start_time |-> HHMM(NineOClock),
     end_time |-> HHMM(TenToTen), subject_name |-> "Maths", room_name |-> "R1"]
ISOLesson ==
    [date |-> YMD(LessonDay), start_time |-> ISO(LessonDay, NineOClock),
     end_time |-> ISO(LessonDay, TenToTen), subject_name |-> "Maths", room_name |-> "R1"]

\* a second well-formed lesson, a lesson without end_time, and a lesson whose
\* date is null
ArtLesson ==
    [date |-> YMD(LessonDay), start_time |-> ISO(LessonDay, TenToTen),
     end_time |-> ISO(LessonDay, TenToTen + 50), subject_name |-> "Art"]
NoEndLesson ==
    [date |-> YMD(LessonDay), start_time |-> ISO(LessonDay, NineOClock),
     subject_name |-> "PE"]
NullDateLesson ==
    [date |-> Null, start_time |-> ISO(LessonDay, NineOClock),
     end_time |-> ISO(LessonDay, TenToTen), subject_name |-> "Music"]
MixLessons == {ISOLesson, ArtLesson, NoEndLesson, HHMMLesson, NullDateLesson}

\* the lists get_lesson_data_for_pupil_between_dates may hand to the calendar
LessonLists ==
    {<<l>> : l \in TextLessons \cup TimeLessons}
    \cup {<<a, b>> : a \in TimeLessons, b \in TimeLessons}
    \cup {<<a, b, c>> : a \in MixLessons, b \in MixLessons, c \in MixLessons}

\* the calendar task of entity p holds lessons_data (calendar.py line 128)
CalLoc(p, list) == [QLoc0 EXCEPT !.pupil = p, !.ret = list]

\* the coordinator has returned lessons_data to async_get_events of the
\* calendar entity of the first pupil
CalInit ==
    /\ today = Day0
    /\ epoch = 0
    /\ selected = NoPupil
    /\ pupils = <<>>
    /\ data = <<>>
    /\ last_update_success = TRUE
    /\ cache = EmptyCache
    /\ entities = {}
    /\ setup = FALSE
    /\ rpc = "idle"
    /\ rloc = RLoc0
    /\ qpc = [q \in Queries |-> IF q = 1 THEN "lessons_data" ELSE "idle"]
    /\ \E list \in LessonLists :
          qloc = [q \in Queries |-> IF q = 1 THEN CalLoc(1, list) ELSE QLoc0]
    /\ rhist = RHist0
    /\ qhist = [q \in Queries |-> QHist0]
    /\ nops = 0
    /\ fails = 0
    /\ sfails = 0

\* async_get_events converts lessons_data, on a host that validates events or
\* on one that does not
ConvertEvents(q) ==
    /\ qpc[q] = "lessons_data"
    /\ \E validates \in BOOLEAN :
          qloc' = [qloc EXCEPT ![q] =
                     [validates |-> validates,
                      events |-> async_get_events(qloc[q].ret, validates)] @@ @]
    /\ qpc' = [qpc EXCEPT ![q] = "events"]
    /\ UNCHANGED <<remoteVars, selected, coordVars, refreshVars, qhist,
                   nops, fails, sfails>>

CalNext == \E q \in Queries : ConvertEvents(q)

CalSpec == CalInit /\ [][CalNext]_vars


\* the conversion of list by task q has ended
Converted(q) == qpc[q] = "events"

\* the event of the scenario: Maths in R1 on the lesson day, 09:00 to 09:50
MathsEvent ==
    [start |-> <<LessonDay, NineOClock>>, end |-> <<LessonDay, TenToTen>>,
     summary |-> "Maths", description |-> Some("Room: R1"), location |-> Some("R1")]

\* ---- C14: the Maths lesson in R1 whose times are the times of day "09:00"
\* and "09:50" is rendered as exactly one event, from 09:00 to 09:50 of its
\* date, with title "Maths", location "R1" and description "Room: R1"; so is
\* the same lesson with full timestamps.
C14_BothTimeFormatsRendered ==
    \A q \in Queries :
        (Converted(q) /\ qloc[q].ret \in {<<HHMMLesson>>, <<ISOLesson>>})
            => qloc[q].events = Returns(<<MathsEvent>>)

\* the events lesson l yields when converted alone, on a host that validates
\* (v) or not
OwnEvents(l, v) == async_get_events(<<l>>, v).value

RECURSIVE EachOwnEvents(_, _)
EachOwnEvents(list, v) ==
    IF list = <<>> THEN <<>>
    ELSE OwnEvents(Head(list), v) \o EachOwnEvents(Tail(list), v)

\* the lesson lacks start_time or end_time, or one of them is a string that
\* is no time
Unconvertible(l) ==
    \/ "start_time" \notin DOMAIN l
    \/ "end_time" \notin DOMAIN l
    \/ l["start_time"].fmt \in {"empty", "null", "text", "iso_invalid"}
    \/ l["end_time"].fmt \in {"empty", "null", "text", "iso_invalid"}

\* ---- C15: converting a list of lessons never raises; a lesson without
\* start_time or end_time or with a time field that cannot be parsed yields no
\* event; and the events of the list are the events the lessons yield one
\* by one, in the order of the lessons.
C15_ConversionIsolated ==
    \A q \in Queries :
        Converted(q) =>
            /\ qloc[q].events.raises = ""
            /\ qloc[q].events.value = EachOwnEvents(qloc[q].ret, qloc[q].validates)
            /\ \A k \in 1..Len(qloc[q].ret) :
                  Unconvertible(qloc[q].ret[k])
                      => OwnEvents(qloc[q].ret[k], qloc[q].validates) = <<>>


\* the line of the description for one field: none when the field is absent or
\* empty
Line(l, key, label) ==
    IF key \in DOMAIN l /\ l[key] # "" THEN <<label \o ": " \o l[key]>> ELSE <<>>

Lines(l) ==
    Line(l, "teacher_name", "Teacher") \o Line(l, "room_name", "Room")
    \o Line(l, "period_name", "Period") \o Line(l, "note", "Note")
    \o Line(l, "pupil_note", "Your Note")

ExpectedDescription(l) ==
    LET n == Len(Lines(l))
    IN  IF n = 0 THEN None
        ELSE IF n = 1 THEN Some(Lines(l)[1])
        ELSE IF n = 2 THEN Some(Lines(l)[1] \o "\n" \o Lines(l)[2])
        ELSE IF n = 3 THEN Some(Lines(l)[1] \o "\n" \o Lines(l)[2] \o "\n" \o Lines(l)[3])
        ELSE IF n = 4 THEN Some(Lines(l)[1] \o "\n" \o Lines(l)[2] \o "\n" \o Lines(l)[3]
                                \o "\n" \o Lines(l)[4])
        ELSE Some(Lines(l)[1] \o "\n" \o Lines(l)[2] \o "\n" \o Lines(l)[3]
                  \o "\n" \o Lines(l)[4] \o "\n" \o Lines(l)[5])

ExpectedTitle(l) ==
    LET subject == IF "subject_name" \in DOMAIN l THEN l["subject_name"]
                   ELSE "Unknown Subject"
    IN  IF "lesson_name" \notin DOMAIN l THEN subject
        ELSE IF l["lesson_name"] = "" THEN subject
        ELSE IF l["lesson_name"] = subject THEN subject
        ELSE subject \o " - " \o l["lesson_name"]

\* ---- C16: the event rendered for a lesson has as title the subject alone
\* when lesson_name is absent, empty or equal to the subject, and
\* "subject - lesson_name" otherwise ("Unknown Subject" standing for an absent
\* subject); its description has one line "Label: value" for each of the fields
\* teacher, room, period, note and pupil note that is present and not empty, in
\* this order, and is None when there is no such field.
C16_TitleAndDescription ==
    \A q \in Queries :
        (Converted(q) /\ Len(qloc[q].ret) = 1 /\ qloc[q].events.raises = "") =>
            \A k \in 1..Len(qloc[q].events.value) :
                /\ qloc[q].events.value[k].summary = ExpectedTitle(qloc[q].ret[1])
                /\ qloc[q].events.value[k].description
                      = ExpectedDescription(qloc[q].ret[1])

\* the event of an Algebra lesson of Maths with a teacher, a room and a pupil
\* note, whose period is absent and whose note is empty
C16_Witness ==
    \E q \in Queries :
        /\ Converted(q)
        /\ Len(qloc[q].ret) = 1
        /\ "period_name" \notin DOMAIN qloc[q].ret[1]
        /\ "note" \in DOMAIN qloc[q].ret[1]
        /\ qloc[q].events.raises = ""
        /\ Len(qloc[q].events.value) = 1
        /\ qloc[q].events.value[1].summary = "Maths - Algebra"
        /\ qloc[q].events.value[1].description
              = Some("Teacher: Ms A\nRoom: R1\nYour Note: late")


\* ---- whole-entry writes of the timetable cache

\* the lesson lists a get_lessons response for date d can carry
ResponseLists(d) ==
    {LessonsData(RemoteResponse(s, d, e)) : s \in PupilIds, e \in 0..MaxEpoch}

\* every entry of the cache is the whole lesson list of one response
EntriesAreResponses ==
    \A p \in DOMAIN cache : \A d \in DOMAIN cache[p] :
        cache[p][d] \in ResponseLists(d)

\* in this step the cycle or a query resumes from a successful get_lessons
\* for (p, d) and assigns the list l of that response
WritesEntry(p, d, l) ==
    \/ /\ rpc = "lessons_ret" /\ rpc' # "lessons_ret"
       /\ rloc.ok
       /\ rloc.roster[rloc.i].id = p
       /\ rloc.dates[rloc.j] = d
       /\ l = LessonsData(rloc.resp)
    \/ \E q \in Queries :
          /\ qpc[q] = "lessons_ret" /\ qpc'[q] # "lessons_ret"
          /\ qloc[q].ok
          /\ qloc[q].pupil = p
          /\ qloc[q].uncached[qloc[q].j] = d
          /\ l = LessonsData(qloc[q].resp)

\* in this step the cycle prunes the cache of p, and d is before the cutoff
PrunesEntry(p, d) ==
    /\ PruneStep
    /\ rloc'.roster[rloc'.i].id = p
    /\ d < today - RetentionDays

\* the entry (p, d) is left as it was, assigned the list of one response, or
\* removed by the pruning of p
EntryStep(p, d) ==
    \/ SameEntry(cache, cache', p, d)
    \/ /\ HasEntry(cache', p, d)
       /\ WritesEntry(p, d, cache'[p][d])
    \/ /\ ~HasEntry(cache', p, d)
       /\ PrunesEntry(p, d)

\* ---- C21: in every state, also in the middle of a cycle or a query, each
\* cache entry is the complete lesson list of one get_lessons response (the
\* empty list for an empty response); in every step an entry either stays as
\* it is, is created or replaced as a whole by the list of the one response
\* the resuming cycle or query holds, or is removed as a whole by the pruning
\* of its pupil.
C21_EntriesWrittenWhole ==
    /\ []EntriesAreResponses
    /\ [][\A p \in PupilIds :
            \A d \in DOMAIN CacheGet(cache, p) \cup DOMAIN CacheGet(cache', p) :
                EntryStep(p, d)]_vars

\* a cycle in the middle of its fetches has replaced an entry cached before
\* the cycle by the two lessons of a new response, and has pruned another
\* entry of the same pupil
C21_Witness ==
    /\ rpc = "lessons_call"
    /\ \E p \in PupilIds :
          /\ rloc.roster[rloc.i].id = p
          /\ \E d \in Dates :
                /\ HasEntry(rhist.cache0, p, d)
                /\ HasEntry(cache, p, d)
                /\ Len(cache[p][d]) = 2
                /\ \E k \in 1..Len(rhist.log) :
                      /\ rhist.log[k] = Call("get_lessons", p, d, TRUE, cache[p][d])
                      /\ rloc.j > 1
                      /\ \E n \in 1..(rloc.j - 1) : rloc.dates[n] = d
          /\ \E d2 \in Dates :
                HasEntry(rhist.cache0, p, d2) /\ ~HasEntry(cache, p, d2)


\* ---- the remote calls of one cycle

\* how often the running or last cycle has executed the call op for (p, d)
CycleCalls(op, p, d) ==
    Cardinality({k \in 1..Len(rhist.log) :
                    /\ rhist.log[k].op = op
                    /\ rhist.log[k].pupil = p
                    /\ rhist.log[k].date = d})

\* no two calls of the log are the same operation for the same pupil and date
NoCallTwice ==
    Cardinality({<<rhist.log[k].op, rhist.log[k].pupil, rhist.log[k].date>> :
                    k \in 1..Len(rhist.log)}) = Len(rhist.log)

\* the cycle is past its login
PastLogin == rpc \notin {"idle", "login_call"}

\* the dates of the window of the cycle's current pupil
WindowDates == {rloc.dates[n] : n \in 1..Len(rloc.dates)}

\* every call of the log is one the cycle makes: login, get_pupils, a
\* select_pupil for a roster pupil, or a get_lessons for a roster pupil and a
\* date of the window
CycleCallsAreOwn ==
    \A k \in 1..Len(rhist.log) :
        LET c == rhist.log[k]
        IN  \/ c.op \in {"login", "get_pupils"} /\ c.pupil = NoPupil /\ c.date = 0
            \/ c.op = "select_pupil" /\ c.pupil \in DictKeys(rloc.roster) /\ c.date = 0
            \/ /\ c.op = "get_lessons"
               /\ c.pupil \in DictKeys(rloc.roster)
               /\ c.date \in WindowDates

\* ---- C22: in one refresh cycle no remote call is made twice, whether it
\* succeeded or failed: login is executed exactly once (once the cycle is past
\* it), get_pupils at most once, select_pupil at most once for each roster
\* pupil and get_lessons at most once for each roster pupil and date of the
\* window; the cycle makes no other call.
C22_NoRetryWithinCycle ==
    /\ PastLogin => CycleCalls("login", NoPupil, 0) = 1
    /\ NoCallTwice
    /\ CycleCallsAreOwn

\* a finished cycle over two pupils in which one get_lessons call failed: that
\* call is in the log once, like each of the other 19 calls of the cycle
C22_Witness ==
    /\ rpc = "done"
    /\ Len(rloc.roster) = 2
    /\ Len(rhist.log) = 2 + 2 * (1 + FetchDays)
    /\ \E k \in 1..Len(rhist.log) :
          /\ rhist.log[k].op = "get_lessons"
          /\ ~rhist.log[k].ok
          /\ CycleCalls("get_lessons", rhist.log[k].pupil, rhist.log[k].date) = 1
          /\ ~HasEntry(cache, rhist.log[k].pupil, rhist.log[k].date)


\* ---- select_pupil of the on-demand query

\* query q has returned
QueryDone(q) == qpc[q] = "done"

\* every date of the range of query q was cached when it began
FullyCached(q) == qloc[q].dates # <<>> /\ qloc[q].uncached = <<>>

\* the first call of query q is its only select_pupil, for its own pupil
SelectsOnceFirst(q) ==
    /\ Len(SelectCalls(qhist[q].log)) = 1
    /\ qhist[q].log[1].op = "select_pupil"
    /\ qhist[q].log[1].pupil = qloc[q].pupil

\* in this step the executor runs the select_pupil call of query q, and it
\* succeeds
QuerySelectSucceeds(q) ==
    /\ qpc[q] = "select_call"
    /\ qpc'[q] = "select_ret"
    /\ qloc'[q].ok

\* ---- C23: a query never calls select_pupil twice, and one that has returned
\* has called it exactly once, for its own pupil and before any get_lessons,
\* also when every date of its range was cached and also when its pupil is no
\* longer in the roster; a fully cached query has called get_lessons for no
\* date; and a select_pupil call of a query that succeeds makes the query's
\* pupil the pupil selected on the shared client.
C23_QueryAlwaysSelects ==
    /\ [](\A q \in Queries :
            /\ Len(SelectCalls(qhist[q].log)) <= 1
            /\ QueryDone(q) => SelectsOnceFirst(q)
            /\ (QueryDone(q) /\ FullyCached(q)) => LessonCalls(qhist[q].log) = <<>>)
    /\ [][\A q \in Queries :
            QuerySelectSucceeds(q) => selected' = qloc[q].pupil]_vars

\* a returned query for a pupil that has dropped out of the roster, all of
\* whose dates were cached: its one call is a select_pupil, which moved the
\* client from the pupil the last cycle had selected to the query's pupil
C23_Witness ==
    \E q \in Queries :
        /\ QueryDone(q)
        /\ FullyCached(q)
        /\ qloc[q].pupil \notin DictKeys(data)
        /\ qhist[q].log = <<Call("select_pupil", qloc[q].pupil, 0, TRUE, <<>>)>>
        /\ rpc = "done"
        /\ \E k \in 1..Len(rhist.log) :
              /\ rhist.log[k].op = "select_pupil"
              /\ rhist.log[k].ok
              /\ rhist.log[k].pupil # qloc[q].pupil
        /\ selected = qloc[q].pupil
        /\ qloc[q].ret # <<>>

====
